---- MODULE Spec2Model ----
(***************************************************************************)
(* Model of src/app.py: a Streamlit script that drives a LangGraph         *)
(* workflow (research_job -> build_profile -> tailor_resume ->             *)
(* validate_resume -> [retry | prepare_interview] -> END) compiled with an *)
(* in-memory checkpointer and interrupt_before = ["prepare_interview"].    *)
(*                                                                         *)
(* One browser session = one st.session_state and one script thread.  A    *)
(* script run is started by a user event and executes the file top to      *)
(* bottom; the graph nodes called by app.invoke are separate steps so that *)
(* the invocations of different sessions interleave.                       *)
(* Within a session the widgets are served between script runs only: an   *)
(* event arriving while app.invoke is in flight is not modelled.           *)
(***************************************************************************)
EXTENDS Integers, Sequences, FiniteSets, TLC

VARIABLES
    session_state,   \* [Sessions -> record]: st.session_state (app, step, tailored_resume, interview_materials)
    app,             \* [Sessions -> object id]: the script's module-level variable `app` (lines 105, 132)
    uploaded_file,   \* [Sessions -> Optional file]: the st.file_uploader widget (line 125)
    saver,           \* [AppIds -> [ThreadIds -> checkpoint]]: the MemorySaver held by each compiled graph
    run,             \* [Sessions -> record]: the invocation in flight (channel values, next node, ...)
    pc,              \* [Sessions -> position of the session's script thread]
    llm_response,    \* [Sessions -> Optional text]: the local `response` of the node that ran last
                     \* in the invocation in flight (lines 51, 56, 61, 66, 72)
    log              \* [Sessions -> Seq(<<node, pc>>)]: history of the current run: the nodes executed
                     \* since the last invoke(initial_input), each with the invocation that ran it

vars == <<session_state, app, uploaded_file, saver, run, pc, llm_response, log>>

----------------------------------------------------------------------------
(* Bounds and domains                                                      *)

\* number of distinct texts the language model may return for a tailored resume
NumResumes == 2

\* browser sessions; Solo is the one that acts in the single-session specification
Sessions == {1, 2}
Solo == {1}

\* Optional[T]: None is the empty tuple, a present value v is <<v>>
None == <<>>
Some(v) == <<v>>

\* thread = {"configurable": {"thread_id": "streamlit_user"}}
ThreadId == "streamlit_user"
ThreadIds == {ThreadId}

\* identities of compiled-graph objects: two can be live per session
\* (st.session_state.app and the module-level `app`)
AppIds == 1..(2 * Cardinality(Sessions))
NoApp == 0

JobUrls == {"url1", "url2"}
GithubUrls == {"gh1"}
Writeups == {"summary1"}
Files == {"pdf1"}

ResumeTexts == {<<"resume", i>> : i \in 1..NumResumes}

Keys == {"job_posting_url", "github_url", "resume_text", "personal_writeup",
         "job_requirements", "candidate_profile", "tailored_resume",
         "interview_materials", "approved", "retries"}

InputKeys == {"job_posting_url", "github_url", "resume_text", "personal_writeup"}

\* a state in which no channel has been written
JobApplicationState == [k \in Keys |-> None]

END == "__end__"
Nodes == {"research_job", "build_profile", "tailor_resume", "validate_resume",
          "prepare_interview"}

----------------------------------------------------------------------------
(* Language-model responses and the pure helpers applied to them           *)

\* Response texts as token sequences.  "ws" is whitespace, "fence_json" is
\* ```json, "fence" is ```, "obj" is the text of a JSON object, "null" is the
\* JSON literal null, "junk" is text that is not JSON.
JsonResponses ==
    { <<"fence_json", "ws", "obj", "ws", "fence">>,
      <<"ws", "null">>,
      <<"junk", "obj">> }

EmptyDict == [kind |-> "dict", keys |-> {}]
ObjDict == [kind |-> "dict", keys |-> {"skills", "experience", "qualifications"}]

Whitespace == {"ws", " "}

RECURSIVE Strip(_)
\* str.strip(): drop leading and trailing whitespace
Strip(text) ==
    IF text = <<>> THEN text
    ELSE IF Head(text) \in Whitespace THEN Strip(Tail(text))
    ELSE IF text[Len(text)] \in Whitespace THEN Strip(SubSeq(text, 1, Len(text) - 1))
    ELSE text

\* str.replace(tok, ""): drop every occurrence of tok
Remove(text, tok) == SelectSeq(text, LAMBDA t : t # tok)

\* json.loads: surrounding whitespace is allowed, exactly one value
JsonLoads(text) ==
    LET body == Strip(text)
    IN  IF body = <<"obj">> THEN [ok |-> TRUE, value |-> Some(ObjDict)]
        ELSE IF body = <<"null">> THEN [ok |-> TRUE, value |-> None]
        ELSE [ok |-> FALSE, value |-> None]

\* parse_json_safe with the except branch returning nothing
parse_json_safe_nodefault(text, default) ==
    LET cleaned == Remove(Remove(Strip(text), "fence_json"), "fence")
        r == JsonLoads(cleaned)
    IN  IF r.ok THEN r.value ELSE None

parse_json_safe(text, default) ==
    LET cleaned == Remove(Remove(Strip(text), "fence_json"), "fence")
        r == JsonLoads(cleaned)
    IN  IF r.ok THEN r.value ELSE Some(default)

\* Answers of the validation prompt, as character sequences
ValidateResponses ==
    { <<"Y", "E", "S">>,
      <<" ", "y", "e", "s", ".">>,
      <<"N", "O">>,
      <<"n", "o", " ">> }

\* str.upper() on the characters used
UpperChar(c) ==
    CASE c = "y" -> "Y"
      [] c = "e" -> "E"
      [] c = "s" -> "S"
      [] c = "n" -> "N"
      [] c = "o" -> "O"
      [] OTHER -> c

Upper(text) == [i \in 1..Len(text) |-> UpperChar(text[i])]

\* sub in text
Contains(sub, text) ==
    \E i \in 1..(Len(text) - Len(sub) + 1) : SubSeq(text, i, i + Len(sub) - 1) = sub

\* llm.invoke(prompt).content: the texts the model may answer to each node's prompt.
\* The interview materials carry the resume text of the prompt they answer.
LLMResponses(node, state) ==
    CASE node = "research_job" -> JsonResponses
      [] node = "build_profile" -> JsonResponses
      [] node = "tailor_resume" -> ResumeTexts
      [] node = "validate_resume" -> ValidateResponses
      [] node = "prepare_interview" -> {<<"interview", state["tailored_resume"]>>}

----------------------------------------------------------------------------
(* Node definitions: each returns the partial update it writes             *)

\* state.get(key, default)
Get(state, key, default) == IF state[key] = None THEN default ELSE state[key][1]

\* research_job without the reset of the retry counter
research_job_noreset(state, response) ==
    [job_requirements |-> parse_json_safe(response, EmptyDict)]

research_job(state, response) ==
    [job_requirements |-> parse_json_safe(response, EmptyDict), retries |-> Some(0)]

build_profile(state, response) ==
    [candidate_profile |-> parse_json_safe(response, EmptyDict)]

\* tailor_resume clearing the approval flag of the previous attempt as well
tailor_resume_clear(state, response) ==
    [tailored_resume |-> Some(response), approved |-> None]

tailor_resume(state, response) ==
    [tailored_resume |-> Some(response)]

\* validate_resume without the increment of the retry counter
validate_resume_noinc(state, response) ==
    LET stripped == Strip(response)
        is_approved == Contains(<<"Y", "E", "S">>, Upper(stripped))
    IN  [approved |-> Some(is_approved), retries |-> Some(Get(state, "retries", 0))]

validate_resume(state, response) ==
    LET stripped == Strip(response)
        is_approved == Contains(<<"Y", "E", "S">>, Upper(stripped))
    IN  [approved |-> Some(is_approved), retries |-> Some(Get(state, "retries", 0) + 1)]

prepare_interview(state, response) ==
    [interview_materials |-> Some(response)]

NodeUpdate(node, state, response) ==
    CASE node = "research_job" -> research_job(state, response)
      [] node = "build_profile" -> build_profile(state, response)
      [] node = "tailor_resume" -> tailor_resume(state, response)
      [] node = "validate_resume" -> validate_resume(state, response)
      [] node = "prepare_interview" -> prepare_interview(state, response)

----------------------------------------------------------------------------
(* Graph construction                                                      *)

EntryPoint == "research_job"

\* the retry threshold of the conditional edge: x["retries"] > 2
RetryLimit == 2

\* Route with the comparison written >= instead of >
Route_ge(x) ==
    IF x["approved"] = Some(TRUE) \/ x["retries"][1] >= RetryLimit
    THEN "approved" ELSE "retry"

\* Route with the threshold one too high
Route_late(x) ==
    IF x["approved"] = Some(TRUE) \/ x["retries"][1] > RetryLimit + 1
    THEN "approved" ELSE "retry"

\* lambda x: "approved" if x["approved"] or x["retries"] > 2 else "retry"
Route(x) ==
    IF x["approved"] = Some(TRUE) \/ x["retries"][1] > RetryLimit
    THEN "approved" ELSE "retry"

RouteTarget(label) ==
    CASE label = "approved" -> "prepare_interview"
      [] label = "retry" -> "tailor_resume"

\* Edge with tailor_resume wired straight to the conditional edge's targets,
\* leaving validate_resume out of the loop
Edge_skip_validate(node, state) ==
    CASE node = "research_job" -> "build_profile"
      [] node = "build_profile" -> "tailor_resume"
      [] node = "tailor_resume" -> "prepare_interview"
      [] node = "validate_resume" -> RouteTarget(Route(state))
      [] node = "prepare_interview" -> END

\* the node scheduled after `node` has written its update into `state`
Edge(node, state) ==
    CASE node = "research_job" -> "build_profile"
      [] node = "build_profile" -> "tailor_resume"
      [] node = "tailor_resume" -> "validate_resume"
      [] node = "validate_resume" -> RouteTarget(Route(state))
      [] node = "prepare_interview" -> END

\* the graph compiled without interrupt_before
InterruptBefore_none == {}

\* builder.compile(..., interrupt_before=["prepare_interview"])
InterruptBefore == {"prepare_interview"}

\* channel update: the keys of the update replace the state's, the rest stay
ApplyWrites(state, update) ==
    [k \in Keys |-> IF k \in DOMAIN update THEN update[k] ELSE state[k]]

NoNext == "__none__"
NoCheckpoint == [values |-> JobApplicationState, next |-> NoNext]
EmptySaver == [t \in ThreadIds |-> NoCheckpoint]

NoRun == [values |-> JobApplicationState, next |-> NoNext, resuming |-> FALSE,
          target |-> NoApp]

----------------------------------------------------------------------------
(* The Streamlit script                                                    *)

\* object identity of a newly constructed graph: an id no live reference holds
NewId(live) == CHOOSE i \in AppIds \ live : \A j \in AppIds \ live : i <= j

\* references that stay live while session s re-executes the script: every
\* session's st.session_state.app and the other sessions' module variables
\* (the module namespace of s's previous script run is discarded)
LiveRefs(s, ss) ==
    ({ss.app} \cup {session_state[t].app : t \in Sessions \ {s}}
              \cup {app[t] : t \in Sessions \ {s}}) \ {NoApp}

\* get_app() handing out one process-wide graph object (a cached resource)
get_app_shared(live, sv) == [id |-> 1, saver |-> sv]

\* get_app(): builds the graph and compiles it with a new MemorySaver
get_app(live, sv) ==
    LET id == NewId(live)
    IN  [id |-> id, saver |-> [sv EXCEPT ![id] = EmptySaver]]

\* invoke and get_state called on the module variable `app` of line 132
InvokeApp_local(ss, local) == local

\* the graph object the script calls invoke and get_state on:
\* st.session_state.app, not the module variable `app`
InvokeApp(ss, local) == ss.app

\* Lines 101-133: session-state defaults, the Generate button, app = get_app().
\* Returns the session state, the module variable `app` and the savers after them.
ScriptTop(s, generate_clicked) ==
    LET ss0 == session_state[s]
        made == get_app(LiveRefs(s, ss0), saver)
        ss1 == IF ss0.app = NoApp THEN [ss0 EXCEPT !.app = made.id] ELSE ss0
        sv1 == IF ss0.app = NoApp THEN made.saver ELSE saver
        ss2 == IF ss1.step = "unset" THEN [ss1 EXCEPT !.step = "input"] ELSE ss1
        ss3 == IF generate_clicked THEN [ss2 EXCEPT !.step = "processing"] ELSE ss2
        local == get_app(LiveRefs(s, ss3), sv1)
    IN  [ss |-> ss3, app |-> local.id, saver |-> local.saver]

\* read_resume_file(file): the text extracted from the uploaded PDF
read_resume_file(file) == <<"text", file>>

\* app.invoke(input, thread) entered with an input: the input is written over
\* the thread's checkpointed values and the run starts at the entry point.
\* The channels the input does not name keep what the checkpoint holds, and a
\* node left pending by an earlier interrupt is dropped.
BeginRun(ckpt, input, target) ==
    [values |-> ApplyWrites(ckpt.values, input), next |-> EntryPoint,
     resuming |-> FALSE, target |-> target]

\* a resume that starts the graph over from its entry point
ResumeRun_restart(ckpt, target) ==
    [values |-> ckpt.values, next |-> EntryPoint, resuming |-> TRUE, target |-> target]

\* app.invoke(None, thread): continue from the thread's checkpoint
ResumeRun(ckpt, target) ==
    [values |-> ckpt.values, next |-> ckpt.next, resuming |-> TRUE, target |-> target]

Checkpoint(r) == [values |-> r.values, next |-> r.next]

\* the processing block entered whenever a file is present, whatever the step
ShouldProcess_anystep(step, file) == file # None

\* if st.session_state.step == "processing" and uploaded_file:
ShouldProcess(step, file) == step = "processing" /\ file # None

\* One execution of the script up to the first app.invoke, or to its end.
ScriptRun(s, generate_clicked, approve_clicked, file) ==
    LET top == ScriptTop(s, generate_clicked)
        target == InvokeApp(top.ss, top.app)
        ckpt == top.saver[target][ThreadId]
    IN  /\ app' = [app EXCEPT ![s] = top.app]
        /\ uploaded_file' = [uploaded_file EXCEPT ![s] = file]
        /\ llm_response' = llm_response
        /\ IF ShouldProcess(top.ss.step, file)
           THEN \E job_url \in JobUrls, github_url \in GithubUrls, writeup \in Writeups :
                  LET initial_input ==
                          [job_posting_url |-> Some(job_url),
                           github_url |-> Some(github_url),
                           resume_text |-> Some(read_resume_file(file[1])),
                           personal_writeup |-> Some(writeup)]
                      r == BeginRun(ckpt, initial_input, target)
                  IN  /\ session_state' = [session_state EXCEPT ![s] = top.ss]
                      /\ run' = [run EXCEPT ![s] = r]
                      /\ saver' = [top.saver EXCEPT ![target][ThreadId] = Checkpoint(r)]
                      /\ pc' = [pc EXCEPT ![s] = "processing"]
                      /\ log' = [log EXCEPT ![s] = <<>>]
           ELSE IF top.ss.step = "review" /\ approve_clicked /\ ckpt.next # NoNext
           THEN /\ session_state' = [session_state EXCEPT ![s] = top.ss]
                /\ run' = [run EXCEPT ![s] = ResumeRun(ckpt, target)]
                /\ saver' = top.saver
                /\ pc' = [pc EXCEPT ![s] = "approving"]
                /\ log' = log
           ELSE \* nothing to invoke (or invoke(None) raised on a thread with no
                \* checkpoint): the run ends after rendering the current step
                /\ session_state' = [session_state EXCEPT ![s] = top.ss]
                /\ saver' = top.saver
                /\ pc' = [pc EXCEPT ![s] = "idle"]
                /\ UNCHANGED <<run, log>>

\* the browser opens the page: first execution of the script
PageLoad(s) ==
    /\ pc[s] = "new"
    /\ ScriptRun(s, FALSE, FALSE, None)

\* the user picks a PDF in the file uploader
UploadFile(s) ==
    /\ pc[s] = "idle"
    /\ uploaded_file[s] = None
    /\ \E f \in Files : ScriptRun(s, FALSE, FALSE, Some(f))

\* the user clears the file uploader
RemoveFile(s) ==
    /\ pc[s] = "idle"
    /\ uploaded_file[s] # None
    /\ ScriptRun(s, FALSE, FALSE, None)

\* the user presses "Generate Tailored Resume" (sidebar, always rendered)
ClickGenerate(s) ==
    /\ pc[s] = "idle"
    /\ ScriptRun(s, TRUE, FALSE, uploaded_file[s])

\* the user presses "Approve & Get Interview Prep" (rendered in the review step)
ClickApprove(s) ==
    /\ pc[s] = "idle"
    /\ session_state[s].step = "review"
    /\ ScriptRun(s, FALSE, TRUE, uploaded_file[s])

----------------------------------------------------------------------------
(* The graph run inside app.invoke                                         *)

\* an interrupt that does not let a resumed run pass
ShouldInterrupt_always(r) == r.next \in InterruptBefore

\* the run stops before a node of interrupt_before unless it has just been resumed
ShouldInterrupt(r) == r.next \in InterruptBefore /\ ~r.resuming

\* a node may execute: the invocation is in flight, the node is scheduled and
\* no interrupt stops the run before it
CanExecute(s, node) ==
    /\ pc[s] \in {"processing", "approving"}
    /\ run[s].next = node
    /\ ~ShouldInterrupt(run[s])

\* one superstep: the node runs on the current values, its update is applied,
\* the outgoing edge is evaluated on the result and the checkpoint is saved
Superstep(s, node) ==
    /\ CanExecute(s, node)
    /\ \E content \in LLMResponses(node, run[s].values) :
         LET values == ApplyWrites(run[s].values, NodeUpdate(node, run[s].values, content))
             r == [run[s] EXCEPT !.values = values, !.next = Edge(node, values),
                                 !.resuming = FALSE]
         IN  /\ run' = [run EXCEPT ![s] = r]
             /\ saver' = [saver EXCEPT ![r.target][ThreadId] = Checkpoint(r)]
             /\ llm_response' = [llm_response EXCEPT ![s] = Some(content)]
             /\ log' = [log EXCEPT ![s] = Append(@, <<node, pc[s]>>)]
    /\ UNCHANGED <<session_state, app, uploaded_file, pc>>

ResearchJob(s) == Superstep(s, "research_job")
BuildProfile(s) == Superstep(s, "build_profile")
TailorResume(s) == Superstep(s, "tailor_resume")
ValidateResume(s) == Superstep(s, "validate_resume")
PrepareInterview(s) == Superstep(s, "prepare_interview")

\* st.rerun(): the script is executed again from the top, no button pressed
Rerun(s, ss) ==
    LET ss0 == ss
        local == get_app(LiveRefs(s, ss0), saver)
    IN  /\ session_state' = [session_state EXCEPT ![s] = ss0]
        /\ app' = [app EXCEPT ![s] = local.id]
        /\ saver' = local.saver

\* Lines 147-152: invoke returns at the interrupt (or at END); the script reads
\* the thread's state, stores the tailored resume, moves to review and reruns
FinishProcessing(s) ==
    /\ pc[s] = "processing"
    /\ ShouldInterrupt(run[s]) \/ run[s].next = END
    /\ LET snapshot == saver[InvokeApp(session_state[s], app[s])][ThreadId]
           ss == [session_state[s] EXCEPT
                     !.tailored_resume = snapshot.values["tailored_resume"],
                     !.step = "review"]
       IN  Rerun(s, ss)
    /\ run' = [run EXCEPT ![s] = NoRun]
    /\ llm_response' = [llm_response EXCEPT ![s] = None]
    /\ pc' = [pc EXCEPT ![s] = "idle"]
    /\ UNCHANGED <<uploaded_file, log>>

\* the review block storing the materials only while none are stored
FinishApprove_keep(s) ==
    /\ pc[s] = "approving"
    /\ ShouldInterrupt(run[s]) \/ run[s].next = END
    /\ LET final_state_output == run[s].values
           ss == [session_state[s] EXCEPT
                     !.interview_materials =
                         IF @ = None THEN final_state_output["interview_materials"] ELSE @,
                     !.step = "final"]
       IN  Rerun(s, ss)
    /\ run' = [run EXCEPT ![s] = NoRun]
    /\ llm_response' = [llm_response EXCEPT ![s] = None]
    /\ pc' = [pc EXCEPT ![s] = "idle"]
    /\ UNCHANGED <<uploaded_file, log>>

\* Lines 166-170: invoke(None, thread) returns the final values; the script
\* stores the interview materials, moves to final and reruns
FinishApprove(s) ==
    /\ pc[s] = "approving"
    /\ ShouldInterrupt(run[s]) \/ run[s].next = END
    /\ LET final_state_output == run[s].values
           ss == [session_state[s] EXCEPT
                     !.interview_materials = final_state_output["interview_materials"],
                     !.step = "final"]
       IN  Rerun(s, ss)
    /\ run' = [run EXCEPT ![s] = NoRun]
    /\ llm_response' = [llm_response EXCEPT ![s] = None]
    /\ pc' = [pc EXCEPT ![s] = "idle"]
    /\ UNCHANGED <<uploaded_file, log>>

----------------------------------------------------------------------------
(* Specification                                                           *)

NoSessionState ==
    [app |-> NoApp, step |-> "unset", tailored_resume |-> None,
     interview_materials |-> None]

Init ==
    /\ session_state = [s \in Sessions |-> NoSessionState]
    /\ app = [s \in Sessions |-> NoApp]
    /\ uploaded_file = [s \in Sessions |-> None]
    /\ saver = [a \in AppIds |-> EmptySaver]
    /\ run = [s \in Sessions |-> NoRun]
    /\ pc = [s \in Sessions |-> "new"]
    /\ llm_response = [s \in Sessions |-> None]
    /\ log = [s \in Sessions |-> <<>>]

Next ==
    \E s \in Solo :
        \/ PageLoad(s)
        \/ UploadFile(s)
        \/ RemoveFile(s)
        \/ ClickGenerate(s)
        \/ ClickApprove(s)
        \/ ResearchJob(s)
        \/ BuildProfile(s)
        \/ TailorResume(s)
        \/ ValidateResume(s)
        \/ PrepareInterview(s)
        \/ FinishProcessing(s)
        \/ FinishApprove(s)

Spec == Init /\ [][Next]_vars

\* what the script thread of session s does by itself once app.invoke has been
\* entered: the nodes of the run, then the statements after the call
InvokeStep(s) ==
    \/ ResearchJob(s)
    \/ BuildProfile(s)
    \/ TailorResume(s)
    \/ ValidateResume(s)
    \/ PrepareInterview(s)
    \/ FinishProcessing(s)
    \/ FinishApprove(s)

\* Every language-model call returns and the script thread keeps running: an
\* invocation in flight takes its next step.  The user's events are not forced.
SpecLive == Init /\ [][Next]_vars /\ \A s \in Solo : WF_vars(InvokeStep(s))

\* the job posting each session asks about in the two-session specification
UrlOf(s) == IF s = 1 THEN "url1" ELSE "url2"

\* In the two-session specification the data of a step is narrowed so that it
\* names the session that chose it: session s submits UrlOf(s), the language
\* model answers its tailoring prompt with resume text s and its JSON prompts
\* with a JSON object.  Only what the step itself writes is narrowed, never
\* what it reads.  The validation answers stay free.
OwnData(s) ==
    /\ (pc[s] = "idle" /\ pc'[s] = "processing") =>
           run'[s].values["job_posting_url"] = Some(UrlOf(s))
    /\ (log'[s] # log[s] /\ log'[s] # <<>>) =>
           LET node == log'[s][Len(log'[s])][1]
           IN  /\ node = "research_job" => run'[s].values["job_requirements"] = Some(ObjDict)
               /\ node = "build_profile" => run'[s].values["candidate_profile"] = Some(ObjDict)
               /\ node = "tailor_resume" => run'[s].values["tailored_resume"] = Some(<<"resume", s>>)

NextTwo ==
    \E s \in Sessions :
        \/ PageLoad(s) /\ OwnData(s)
        \/ UploadFile(s) /\ OwnData(s)
        \/ RemoveFile(s) /\ OwnData(s)
        \/ ClickGenerate(s) /\ OwnData(s)
        \/ ClickApprove(s) /\ OwnData(s)
        \/ ResearchJob(s) /\ OwnData(s)
        \/ BuildProfile(s) /\ OwnData(s)
        \/ TailorResume(s) /\ OwnData(s)
        \/ ValidateResume(s) /\ OwnData(s)
        \/ PrepareInterview(s) /\ OwnData(s)
        \/ FinishProcessing(s) /\ OwnData(s)
        \/ FinishApprove(s) /\ OwnData(s)

\* two browser sessions served by the same process, their script threads interleaved
SpecTwo == Init /\ [][NextTwo]_vars

----------------------------------------------------------------------------
(* Properties                                                              *)

\* the thread's checkpoint in the graph object the session keeps
Ckpt(s) ==
    IF session_state[s].app = NoApp THEN NoCheckpoint
    ELSE saver[session_state[s].app][ThreadId]

NodeAt(l, i) == l[i][1]
Count(node, l) == Cardinality({i \in 1..Len(l) : NodeAt(l, i) = node})
Executed(node, l) == \E i \in 1..Len(l) : NodeAt(l, i) = node
LastNode(l) == IF l = <<>> THEN NoNext ELSE NodeAt(l, Len(l))

\* times the edge validate_resume -> tailor_resume was taken
BackEdges(l) ==
    Cardinality({i \in 1..(Len(l) - 1) :
                    NodeAt(l, i) = "validate_resume" /\ NodeAt(l, i + 1) = "tailor_resume"})

\* the script is waiting for the user in the review step
Paused(s) == pc[s] = "idle" /\ session_state[s].step = "review"

\* the run has left the tailor/validate loop with every validation rejected
AllRejected(s) ==
    /\ LastNode(log[s]) \in {"validate_resume", "prepare_interview"}
    /\ Ckpt(s).next \in {"prepare_interview", END}
    /\ Ckpt(s).values["approved"] = Some(FALSE)

\* the executed nodes of a run follow
\* research_job build_profile (tailor_resume validate_resume)+ prepare_interview?
StepOrder(l) ==
    \A i \in 1..Len(l) :
        /\ (NodeAt(l, i) = "research_job") <=> (i = 1)
        /\ (NodeAt(l, i) = "build_profile") <=> (i = 2)
        /\ i = 3 => NodeAt(l, i) = "tailor_resume"
        /\ i = 4 => NodeAt(l, i) = "validate_resume"
        /\ (NodeAt(l, i) = "tailor_resume" /\ i < Len(l)) => NodeAt(l, i + 1) = "validate_resume"
        /\ (NodeAt(l, i) = "validate_resume") => (i > 1 /\ NodeAt(l, i - 1) = "tailor_resume")
        /\ (NodeAt(l, i) = "prepare_interview") =>
               /\ i = Len(l)
               /\ \E j \in 1..(i - 1) : NodeAt(l, j) = "validate_resume"

\* C1: in every run the steps execute in the order research_job, build_profile,
\* tailor_resume, validate_resume; a tailor_resume is always followed at once by
\* validate_resume (while it is the last step executed, validate_resume is the
\* scheduled one and the invocation is still in flight); prepare_interview comes
\* only after a validate_resume of the run and nothing is scheduled after it.
C1_StepOrder ==
    \A s \in Sessions :
        /\ StepOrder(log[s])
        /\ LastNode(log[s]) = "tailor_resume" =>
               /\ pc[s] = "processing"
               /\ run[s].next = "validate_resume"
               /\ Ckpt(s).next = "validate_resume"
        /\ LastNode(log[s]) = "prepare_interview" => Ckpt(s).next = END

\* a run that took the retry edge once and then went through prepare_interview
C1_Witness ==
    \E s \in Sessions :
        /\ Len(log[s]) = 7
        /\ LastNode(log[s]) = "prepare_interview"
        /\ session_state[s].step = "final"

\* C2: after each validate_resume the workflow goes back to tailor_resume exactly
\* when the resume was rejected and the retry counter (as the routing decision
\* sees it, i.e. already incremented) is <= 2; otherwise prepare_interview is next.
C2_Routing ==
    \A s \in Sessions :
        LastNode(log[s]) = "validate_resume" =>
            LET x == Ckpt(s).values
                retry == x["approved"] = Some(FALSE) /\ x["retries"][1] <= 2
            IN  /\ retry <=> (Ckpt(s).next = "tailor_resume")
                /\ ~retry <=> (Ckpt(s).next = "prepare_interview")

\* a rejected resume with counter 2 being sent back to tailor_resume
C2_Witness ==
    \E s \in Sessions :
        /\ LastNode(log[s]) = "validate_resume"
        /\ Ckpt(s).values["approved"] = Some(FALSE)
        /\ Ckpt(s).values["retries"] = Some(2)
        /\ Ckpt(s).next = "tailor_resume"

\* C3: in one run tailor_resume and validate_resume execute at most 3 times each,
\* and exactly 3 times when every validation rejects.
C3_ThreeAttempts ==
    \A s \in Sessions :
        /\ Count("tailor_resume", log[s]) <= 3
        /\ Count("validate_resume", log[s]) <= 3
        /\ AllRejected(s) =>
               /\ Count("tailor_resume", log[s]) = 3
               /\ Count("validate_resume", log[s]) = 3

\* a second run of the session (the first one was approved by the user) in
\* which all three validations rejected
C3_Witness ==
    \E s \in Sessions :
        /\ Paused(s)
        /\ AllRejected(s)
        /\ Count("tailor_resume", log[s]) = 3
        /\ session_state[s].interview_materials # None

\* C4 as stated: when every validation rejects the retry edge is taken 3 times
\* before prepare_interview, and never more than 3 times in a run.
C4_Original ==
    \A s \in Sessions :
        /\ BackEdges(log[s]) <= 3
        /\ AllRejected(s) => BackEdges(log[s]) = 3

\* C4 amended: when every validation rejects the retry edge is taken exactly 2
\* times (3 tailoring attempts) before prepare_interview, and never more than 2
\* times in a run.
C4_TwoRetries ==
    \A s \in Sessions :
        /\ BackEdges(log[s]) <= 2
        /\ AllRejected(s) => BackEdges(log[s]) = 2

\* a run paused for review after three rejections
C4_Witness ==
    \E s \in Sessions :
        /\ Paused(s)
        /\ AllRejected(s)
        /\ BackEdges(log[s]) = 2
        /\ Ckpt(s).next = "prepare_interview"

\* C5 as stated: the initial invocation never executes prepare_interview; it
\* returns with prepare_interview pending and interview_materials unset;
\* prepare_interview is executed only by the invocation the Approve button starts.
C5_Original ==
    \A s \in Sessions :
        /\ \A i \in 1..Len(log[s]) :
               NodeAt(log[s], i) = "prepare_interview" => log[s][i][2] = "approving"
        /\ Paused(s) =>
               /\ Ckpt(s).next = "prepare_interview"
               /\ Ckpt(s).values["interview_materials"] = None

\* C5 amended: the initial invocation never executes prepare_interview; it
\* returns with prepare_interview pending and has not written
\* interview_materials, which throughout the invocation and at the pause holds
\* what it held before (the session's stored materials: unset until the first
\* approval, the previous run's materials afterwards); prepare_interview is
\* executed only by the invocation the Approve button starts.
C5_PauseBeforeInterview ==
    \A s \in Sessions :
        /\ \A i \in 1..Len(log[s]) :
               NodeAt(log[s], i) = "prepare_interview" => log[s][i][2] = "approving"
        /\ Paused(s) => Ckpt(s).next = "prepare_interview"
        /\ (pc[s] = "processing" \/ Paused(s)) =>
               Ckpt(s).values["interview_materials"] = session_state[s].interview_materials
        /\ (Paused(s) /\ session_state[s].interview_materials = None) =>
               Ckpt(s).values["interview_materials"] = None

\* a second run paused for review while the thread still holds the materials
\* of the first
C5_Witness ==
    \E s \in Sessions :
        /\ Paused(s)
        /\ Ckpt(s).next = "prepare_interview"
        /\ ~Executed("prepare_interview", log[s])
        /\ Ckpt(s).values["interview_materials"] # None

\* C6: the invocation started by Approve (invoke with no input) executes
\* prepare_interview and nothing else, changes no state field but
\* interview_materials, and its result carries the materials into the session.
C6_ResumeFrame ==
    [][\A s \in Sessions :
          /\ (pc[s] = "approving" \/ pc'[s] = "approving") =>
                /\ \A k \in Keys \ {"interview_materials"} :
                       Ckpt(s)'.values[k] = Ckpt(s).values[k]
                /\ log'[s] # log[s] =>
                       log'[s] = Append(log[s], <<"prepare_interview", "approving">>)
          /\ (pc[s] = "idle" /\ pc'[s] = "approving") =>
                /\ run'[s].values = Ckpt(s).values
                /\ run'[s].next = "prepare_interview"
          /\ (pc[s] = "approving" /\ pc'[s] = "idle") =>
                /\ log[s] # <<>>
                /\ log[s][Len(log[s])] = <<"prepare_interview", "approving">>
                /\ Count("prepare_interview", log[s]) = 1
                /\ Count("research_job", log[s]) = 1
                /\ run[s].values = Ckpt(s).values
                /\ session_state'[s].step = "final"
                /\ session_state'[s].interview_materials # None
                /\ session_state'[s].interview_materials =
                       Ckpt(s)'.values["interview_materials"]
      ]_vars

\* the resume has run: final step, after a run with one retry
C6_Witness ==
    \E s \in Sessions :
        /\ pc[s] = "idle"
        /\ session_state[s].step = "final"
        /\ Len(log[s]) = 7
        /\ log[s][7] = <<"prepare_interview", "approving">>
        /\ Ckpt(s).values["retries"] = Some(2)

\* the checkpoint of the thread in the graph object invoke and get_state use
InvokedCkpt(s) ==
    LET a == InvokeApp(session_state[s], app[s])
    IN  IF a = NoApp THEN NoCheckpoint ELSE saver[a][ThreadId]

\* C7: the graph object in st.session_state is created once and never replaced;
\* the graph object that line 132 creates on each script run is another object;
\* whenever the review step is shown, the object used by invoke/get_state holds
\* the thread's checkpoint paused before prepare_interview, with the resume
\* that is shown.
C7_SessionApp ==
    /\ [](\A s \in Sessions :
            /\ pc[s] # "new" =>
                   /\ session_state[s].app # NoApp
                   /\ app[s] # session_state[s].app
                   /\ InvokeApp(session_state[s], app[s]) = session_state[s].app
            /\ Paused(s) =>
                   /\ InvokedCkpt(s).next = "prepare_interview"
                   /\ InvokedCkpt(s).values["tailored_resume"] = session_state[s].tailored_resume
                   /\ session_state[s].tailored_resume # None)
    /\ [][\A s \in Sessions :
            session_state[s].app # NoApp => session_state'[s].app = session_state[s].app]_vars

\* the review step after the user has removed the file: the script has been
\* executed again since the checkpoint was written
C7_Witness ==
    \E s \in Sessions :
        /\ Paused(s)
        /\ uploaded_file[s] = None
        /\ InvokedCkpt(s).next = "prepare_interview"

\* the state fields each node writes
OwnFields(node) ==
    CASE node = "research_job" -> {"job_requirements", "retries"}
      [] node = "build_profile" -> {"candidate_profile"}
      [] node = "tailor_resume" -> {"tailored_resume"}
      [] node = "validate_resume" -> {"approved", "retries"}
      [] node = "prepare_interview" -> {"interview_materials"}

\* C8: each step changes only its own fields of the record (in the run and in
\* the checkpoint); the four input fields are changed by no step and hold the
\* input given to the run.
C8_Frame ==
    [][\A s \in Sessions :
          (log'[s] # log[s] /\ log'[s] # <<>>) =>
              LET node == LastNode(log'[s])
              IN  /\ \A k \in Keys \ OwnFields(node) :
                         /\ run'[s].values[k] = run[s].values[k]
                         /\ Ckpt(s)'.values[k] = Ckpt(s).values[k]
                  /\ \A k \in InputKeys : run'[s].values[k] # None
                  /\ Ckpt(s)'.values = run'[s].values
      ]_vars

\* all five steps have run in a second run of the session
C8_Witness ==
    \E s \in Sessions :
        /\ LastNode(log[s]) = "prepare_interview"
        /\ pc[s] = "approving"
        /\ session_state[s].interview_materials # None
        /\ \A k \in Keys : Ckpt(s).values[k] # None

\* C9: once research_job has executed in a run, 0 <= retries <= 3 and retries
\* is the number of validate_resume executions of the run.
C9_RetryCounter ==
    \A s \in Sessions :
        log[s] # <<>> =>
            /\ Ckpt(s).values["retries"] # None
            /\ Ckpt(s).values["retries"][1] \in 0..3
            /\ Ckpt(s).values["retries"][1] = Count("validate_resume", log[s])

\* the counter at its maximum
C9_Witness ==
    \E s \in Sessions :
        /\ Count("validate_resume", log[s]) = 3
        /\ Ckpt(s).values["retries"] = Some(3)

\* C10: whenever prepare_interview is pending at the pause or has executed,
\* approved is true or retries is 3.
C10_PauseCondition ==
    \A s \in Sessions :
        (Paused(s) \/ Ckpt(s).next = "prepare_interview"
                   \/ LastNode(log[s]) = "prepare_interview") =>
            \/ Ckpt(s).values["approved"] = Some(TRUE)
            \/ Ckpt(s).values["retries"] = Some(3)

\* a resume rejected three times has gone through prepare_interview
C10_Witness ==
    \E s \in Sessions :
        /\ session_state[s].step = "final"
        /\ LastNode(log[s]) = "prepare_interview"
        /\ Ckpt(s).values["approved"] = Some(FALSE)
        /\ Ckpt(s).values["retries"] = Some(3)
        /\ session_state[s].interview_materials # None

\* the workflow of session s has ended and the session holds its materials
Ended(s) ==
    /\ pc[s] = "idle"
    /\ session_state[s].step = "final"
    /\ Ckpt(s).next = END
    /\ session_state[s].interview_materials # None
    /\ session_state[s].interview_materials = Ckpt(s).values["interview_materials"]

\* C11: when every language-model call returns, the initial invocation always
\* reaches the pause before prepare_interview, whatever the validation answers;
\* and the invocation started by Approve always reaches the end of the workflow
\* with interview_materials set.
C11_Termination ==
    \A s \in Solo :
        /\ (pc[s] = "processing") ~> (Paused(s) /\ Ckpt(s).next = "prepare_interview")
        /\ (pc[s] = "approving") ~> Ended(s)

\* the end of a run that took both retries and was approved on the third attempt
C11_Witness ==
    \E s \in Solo :
        /\ Ended(s)
        /\ BackEdges(log[s]) = 2
        /\ Ckpt(s).values["approved"] = Some(TRUE)

\* the values of a record of session s that name a session name s
OwnValues(s, values) ==
    /\ values["job_posting_url"] \in {None, Some(UrlOf(s))}
    /\ values["tailored_resume"] \in {None, Some(<<"resume", s>>)}
    /\ values["interview_materials"] \in {None, Some(<<"interview", Some(<<"resume", s>>)>>)}

\* C12: two sessions using the same thread id do not interfere: each keeps its
\* own graph object (no object is referenced by both), an invocation in flight
\* works on the session's own graph and finds in its checkpoint exactly what it
\* wrote itself, and the checkpoint, the tailored resume and the interview
\* materials of a session never hold data of the other session.
C12_Isolation ==
    \A s \in Sessions :
        /\ \A t \in Sessions \ {s} :
               /\ session_state[s].app # NoApp =>
                      session_state[s].app \notin {session_state[t].app, app[t]}
               /\ app[s] # NoApp => app[s] \notin {session_state[t].app, app[t]}
        /\ pc[s] \in {"processing", "approving"} =>
               /\ run[s].target = session_state[s].app
               /\ Checkpoint(run[s]) = Ckpt(s)
        /\ OwnValues(s, Ckpt(s).values)
        /\ OwnValues(s, run[s].values)
        /\ session_state[s].tailored_resume \in {None, Some(<<"resume", s>>)}
        /\ session_state[s].interview_materials \in
               {None, Some(<<"interview", Some(<<"resume", s>>)>>)}
        /\ Paused(s) =>
               /\ Ckpt(s).next = "prepare_interview"
               /\ Ckpt(s).values["tailored_resume"] = session_state[s].tailored_resume
        /\ log[s] # <<>> =>
               Ckpt(s).values["retries"] = Some(Count("validate_resume", log[s]))

\* one session resuming after approval while the other is in its retry loop
C12_Witness ==
    /\ pc[1] = "approving"
    /\ LastNode(log[1]) = "prepare_interview"
    /\ pc[2] = "processing"
    /\ BackEdges(log[2]) = 1
    /\ session_state[2].interview_materials # None

Steps == {"input", "processing", "review", "final"}

\* C13: once the page is loaded the step is one of input, processing, review,
\* final; review and final imply a stored tailored resume, final implies stored
\* interview materials; the initial invocation starts only with step =
\* processing and a file uploaded, and starts as soon as both hold; Generate
\* without a file only sets step to processing; review is entered only from
\* processing (by the end of the initial invocation) and final only from review
\* (by the end of the invocation Approve started).
C13_Steps ==
    /\ [](\A s \in Sessions :
            /\ pc[s] # "new" => session_state[s].step \in Steps
            /\ session_state[s].step \in {"review", "final"} =>
                   session_state[s].tailored_resume # None
            /\ session_state[s].step = "final" =>
                   session_state[s].interview_materials # None
            /\ pc[s] = "processing" =>
                   /\ session_state[s].step = "processing"
                   /\ uploaded_file[s] # None
            /\ (pc[s] = "idle" /\ session_state[s].step = "processing") =>
                   uploaded_file[s] = None
            /\ pc[s] = "approving" => session_state[s].step = "review")
    /\ [][\A s \in Sessions :
            /\ (session_state[s].step # "review" /\ session_state'[s].step = "review") =>
                   /\ session_state[s].step = "processing"
                   /\ pc[s] = "processing"
            /\ (session_state[s].step # "final" /\ session_state'[s].step = "final") =>
                   /\ session_state[s].step = "review"
                   /\ pc[s] = "approving"
            /\ (pc[s] # "processing" /\ pc'[s] = "processing") =>
                   /\ session_state'[s].step = "processing"
                   /\ uploaded_file'[s] # None
                   /\ log'[s] = <<>>
            /\ (session_state[s].step # "processing" /\ session_state'[s].step = "processing"
                  /\ uploaded_file'[s] = None) =>
                   /\ session_state'[s] = [session_state[s] EXCEPT !.step = "processing"]
                   /\ pc'[s] = "idle"
                   /\ Ckpt(s)' = Ckpt(s)
                   /\ UNCHANGED <<uploaded_file, run, log>>
            /\ (pc[s] = "idle" /\ session_state[s].step = "processing"
                  /\ uploaded_file'[s] # None) =>
                   pc'[s] = "processing"
      ]_vars

\* Generate pressed without a file after an earlier run of the session
C13_Witness ==
    \E s \in Sessions :
        /\ pc[s] = "idle"
        /\ session_state[s].step = "processing"
        /\ uploaded_file[s] = None
        /\ session_state[s].interview_materials # None

\* the thread of session s already holds the checkpoint of an earlier run,
\* paused before prepare_interview or finished
HasEarlierRun(s) == Ckpt(s).next \in {"prepare_interview", END}

\* the initial invocation of a later run of the session is in flight
RerunInFlight(s) == pc[s] = "processing" /\ session_state[s].tailored_resume # None

\* C14: Generate pressed (with a file) while the thread holds a run paused in
\* review or finished in final starts a fresh run: research_job is scheduled
\* and the pending prepare_interview is dropped, research_job resets retries to
\* 0, the run makes at most 3 tailor attempts of its own, and prepare_interview
\* does not execute in it before the user approves again.
C14_FreshRun ==
    /\ [][\A s \in Sessions :
            (pc[s] = "idle" /\ pc'[s] = "processing" /\ HasEarlierRun(s)) =>
                /\ session_state[s].step \in {"review", "final", "processing"}
                /\ Ckpt(s)'.next = "research_job"
                /\ run'[s].next = "research_job"
                /\ ~run'[s].resuming
                /\ log'[s] = <<>>
                /\ \A k \in Keys \ InputKeys : Ckpt(s)'.values[k] = Ckpt(s).values[k]
      ]_vars
    /\ [](\A s \in Sessions :
            /\ RerunInFlight(s) =>
                   /\ ~Executed("prepare_interview", log[s])
                   /\ Count("tailor_resume", log[s]) <= 3
                   /\ log[s] # <<>> =>
                          /\ NodeAt(log[s], 1) = "research_job"
                          /\ Ckpt(s).values["retries"] =
                                 Some(Count("validate_resume", log[s]))
                   /\ Len(log[s]) \in {1, 2, 3} => Ckpt(s).values["retries"] = Some(0)
            /\ (Paused(s) /\ session_state[s].interview_materials # None) =>
                   /\ Ckpt(s).next = "prepare_interview"
                   /\ ~Executed("prepare_interview", log[s])
                   /\ Count("research_job", log[s]) = 1)

\* a run started over an unapproved pause has just reset the counter that the
\* earlier run had left at 3
C14_Witness ==
    \E s \in Sessions :
        /\ RerunInFlight(s)
        /\ session_state[s].interview_materials = None
        /\ Len(log[s]) = 1
        /\ Ckpt(s).values["retries"] = Some(0)
        /\ Ckpt(s).values["approved"] = Some(FALSE)

\* C15: whenever step = final, the stored interview materials are the answer
\* to the interview prompt built from exactly the stored tailored resume, which
\* is the tailored_resume of the thread's checkpoint (the last one
\* tailor_resume wrote in that run).
C15_MaterialsMatchResume ==
    \A s \in Sessions :
        session_state[s].step = "final" =>
            /\ session_state[s].tailored_resume # None
            /\ session_state[s].interview_materials =
                   Some(<<"interview", session_state[s].tailored_resume>>)
            /\ session_state[s].tailored_resume = Ckpt(s).values["tailored_resume"]
            /\ session_state[s].interview_materials = Ckpt(s).values["interview_materials"]

\* the final step showing the second resume text with its own materials
C15_Witness ==
    \E s \in Sessions :
        /\ session_state[s].step = "final"
        /\ session_state[s].tailored_resume = Some(<<"resume", 2>>)
        /\ session_state[s].interview_materials =
               Some(<<"interview", Some(<<"resume", 2>>)>>)

\* json.loads raises on the text parse_json_safe hands to it
ParseFails(text) == ~JsonLoads(Remove(Remove(Strip(text), "fence_json"), "fence")).ok

\* what a JSON node must have stored for the answer it received: the default
\* (the empty record) on a parse failure, else what json.loads returns, which
\* is a JSON object or, for the literal null, None
StoredFor(text) ==
    IF ParseFails(text) THEN Some(EmptyDict)
    ELSE IF Strip(Remove(Remove(Strip(text), "fence_json"), "fence")) = <<"null">> THEN None
    ELSE Some(ObjDict)

\* C16: whatever the language model answers to research_job or build_profile,
\* the node completes, the field holds the default (the empty record) when the
\* answer does not parse, and the workflow goes on to the next step.
C16_ParseSafe ==
    \A s \in Sessions :
        /\ LastNode(log[s]) = "research_job" =>
               /\ llm_response[s] # None
               /\ Ckpt(s).values["job_requirements"] = StoredFor(llm_response[s][1])
               /\ ParseFails(llm_response[s][1]) =>
                      Ckpt(s).values["job_requirements"] = Some(EmptyDict)
               /\ pc[s] = "processing"
               /\ run[s].next = "build_profile"
        /\ LastNode(log[s]) = "build_profile" =>
               /\ llm_response[s] # None
               /\ Ckpt(s).values["candidate_profile"] = StoredFor(llm_response[s][1])
               /\ ParseFails(llm_response[s][1]) =>
                      Ckpt(s).values["candidate_profile"] = Some(EmptyDict)
               /\ pc[s] = "processing"
               /\ run[s].next = "tailor_resume"
        /\ (pc[s] = "idle" /\ session_state[s].step \in {"review", "final"}) =>
               /\ Ckpt(s).values["job_requirements"] \in {Some(EmptyDict), Some(ObjDict), None}
               /\ Ckpt(s).values["candidate_profile"] \in {Some(EmptyDict), Some(ObjDict), None}

\* build_profile has just received text that is not JSON, after research_job
\* had received the same: both fields hold the default and tailor_resume is next
C16_Witness ==
    \E s \in Sessions :
        /\ LastNode(log[s]) = "build_profile"
        /\ llm_response[s] = Some(<<"junk", "obj">>)
        /\ Ckpt(s).values["job_requirements"] = Some(EmptyDict)
        /\ Ckpt(s).values["candidate_profile"] = Some(EmptyDict)
        /\ run[s].next = "tailor_resume"

====
